---- MODULE Spec2Model ----
(***************************************************************************)
(* One invocation of the Moltbook command-line client (moltbook.py).       *)
(*                                                                         *)
(* A run is: click parses argv and dispatches to a command function; the   *)
(* command calls api_request, which loads the API key, issues one HTTP     *)
(* request and maps the outcome; the command then checks and renders the   *)
(* decoded response.  The state records the requests issued, the two       *)
(* output streams and the exit code.                                       *)
(*                                                                         *)
(* Conventions.  A JSON object (a Python dict) is a function whose domain  *)
(* is the set of keys present.  A value that may be None is a sequence of  *)
(* length 0 (None) or 1.  A line of output is a sequence of strings, the   *)
(* pieces of the f-string that produced it.                                *)
(***************************************************************************)
EXTENDS Integers, Sequences, FiniteSets, TLC

(***************************************************************************)
(* Bounds of the model.                                                    *)
(***************************************************************************)
\* longest "posts" list a modelled response carries
MaxPosts == 2

\* most comments, replies included, a rendered comment tree holds
MaxComments == 4

\* the timestamps of the model lie within MaxDays days before the epoch and
\* MaxDays days after its first day
MaxDays == 3

(***************************************************************************)
(* Python dictionaries.                                                    *)
(***************************************************************************)
\* {}
Empty == [k \in {} |-> TRUE]

\* d.get(k, default)
get(d, k, default) == IF k \in DOMAIN d THEN d[k] ELSE default

\* d.get(k): None (<<>>) when the key is absent
getopt(d, k) == IF k \in DOMAIN d THEN <<d[k]>> ELSE <<>>

\* the objects that carry key k with a value of vs, or do not carry it
Opt(k, vs) == {Empty} \cup {k :> v : v \in vs}

\* all unions of an object of A with an object of B (disjoint keys)
Merge(A, B) == {a @@ b : a \in A, b \in B}

\* all sequences over S of length at most n
SeqUpTo(S, n) == UNION {[1..k -> S] : k \in 0..n}

RECURSIVE Concat(_)
\* the concatenation of a sequence of sequences
Concat(ss) == IF ss = <<>> THEN <<>> ELSE Head(ss) \o Concat(Tail(ss))

(***************************************************************************)
(* The command line.  An invocation names a command, gives positional      *)
(* arguments and a set of options with their values.                       *)
(***************************************************************************)
BASE_URL == "https://www.moltbook.com/api/v1"

\* the commands registered on the click group
Commands == {"feed", "post", "create", "delete", "comment", "user"}

\* the options each command declares
Options(cmd) ==
    CASE cmd = "feed"    -> {"sort", "limit", "json"}
      [] cmd = "post"    -> {"json"}
      [] cmd = "create"  -> {"title", "content", "submolt"}
      [] cmd = "delete"  -> {}
      [] cmd = "comment" -> {"content", "reply-to"}
      [] cmd = "user"    -> {"json"}
      [] OTHER           -> {}

\* the options declared with required=True
Required(cmd) ==
    CASE cmd = "create"  -> {"title", "content"}
      [] cmd = "comment" -> {"content"}
      [] OTHER           -> {}

\* the number of click.argument declarations
NArgs(cmd) == IF cmd \in {"post", "delete", "comment", "user"} THEN 1 ELSE 0

\* click.Choice of --sort
SortChoice == {"hot", "new", "top"}

\* The usage error click raises for an invocation, <<>> when it is accepted.
UsageError(a) ==
    IF a.cmd \notin Commands
        THEN <<"No such command">>
    ELSE IF DOMAIN a.opts \ Options(a.cmd) # {}
        THEN <<"No such option">>
    ELSE IF a.cmd = "feed" /\ "sort" \in DOMAIN a.opts /\ a.opts["sort"] \notin SortChoice
        THEN <<"Invalid value for '--sort'">>
    ELSE IF Len(a.args) < NArgs(a.cmd)
        THEN <<"Missing argument">>
    ELSE IF Len(a.args) > NArgs(a.cmd)
        THEN <<"Got unexpected extra argument">>
    ELSE IF Required(a.cmd) \ DOMAIN a.opts # {}
        THEN <<"Missing option">>
    ELSE <<>>

\* the invocations the model runs
Invocations ==
    LET Json  == Opt("json", {TRUE})
        Ids   == {<<>>, <<"abc123">>}
        Inv(c, As, Os) == {[cmd |-> c, args |-> a, opts |-> o] : a \in As, o \in Os}
    IN  Inv("feed", {<<>>},
            Merge(Merge(Opt("sort", {"hot", "new", "top", "best"}), Opt("limit", {5})),
                  Merge(Json, Opt("submolt", {"programming"}))))
        \cup Inv("post", Ids, Json)
        \cup Inv("create", {<<>>},
                 Merge(Merge(Opt("title", {"T"}), Opt("content", {"C"})),
                       Merge(Opt("submolt", {"programming"}), Json)))
        \cup Inv("delete", Ids, Json)
        \cup Inv("comment", Ids,
                 Merge(Merge(Opt("content", {"C"}), Opt("reply-to", {"", "comment1"})), Json))
        \cup Inv("user", {<<>>, <<"testuser">>}, Json)
        \cup Inv("submolts", {<<>>}, Json)
        \cup Inv("upvote", {<<"abc123">>}, {Empty})
        \cup Inv("downvote", {<<"abc123">>}, {Empty})
        \cup Inv("upvote-comment", {<<"comment123">>}, {Empty})
        \cup Inv("downvote-comment", {<<"comment123">>}, {Empty})

(***************************************************************************)
(* What the server may answer.                                             *)
(***************************************************************************)
\* the seconds of a day at which the modelled timestamps fall: the ends of
\* the minute, hour and day buckets, seen from midnight in either direction
SecondsOfDay ==
    LET Edge == {0, 1, 45, 59, 60, 3599, 3600, 5400}
    IN  Edge \cup {86400 - x : x \in Edge \ {0}}

\* timestamps (seconds) the modelled payloads carry
Times == {d * 86400 + x : d \in (0 - MaxDays)..(MaxDays + 1), x \in SecondsOfDay}

\* the clock readings of datetime.now
NowValues == {172800}

\* the ISO-8601 text of a timestamp
isoformat(t) == ToString(t)

Authors == {[username |-> "testuser", name |-> "Test User"], [name |-> "Commenter"], Empty}

Posts ==
    { [id |-> "abc123", title |-> "Test Post", content |-> "This is test content",
       upvotes |-> 10, downvotes |-> 2, comment_count |-> 5,
       created_at |-> isoformat(167400),
       author |-> [username |-> "testuser", name |-> "Test User"],
       submolt |-> [name |-> "programming"]],
      [id |-> "def456", title |-> "Second", upvotes |-> 2, downvotes |-> 10,
       created_at |-> "not-a-date", author |-> Empty],
      [upvotes |-> 1, created_at |-> ""] }

Comments ==
    { [id |-> "comment1", content |-> "Test comment", upvotes |-> 3, downvotes |-> 0,
       created_at |-> isoformat(172755), author |-> [name |-> "Commenter"],
       replies |-> <<>>],
      [id |-> "comment2", content |-> "a", downvotes |-> 1,
       replies |-> << [id |-> "comment3", content |-> "b", replies |-> <<>>] >>] }

Users ==
    { [username |-> "testuser", name |-> "Test User", bio |-> "I am a test user",
       karma |-> 42, follower_count |-> 10, following_count |-> 5,
       created_at |-> isoformat(0)],
      [username |-> "bare"],
      Empty }

\* the envelope fields of a response
Envelopes ==
    Merge(Merge(Merge(Opt("success", {TRUE, FALSE}), Opt("error", {"E"})),
                Opt("hint", {"", "H"})),
          Merge(Opt("retry_after_minutes", {0, 5}), Opt("message", {"M"})))

\* the JSON objects a response body may decode to
Bodies ==
    Envelopes
    \cup Merge(Opt("success", {TRUE, FALSE}),
               {[posts |-> ps] : ps \in SeqUpTo(Posts, MaxPosts)})
    \cup Merge(Opt("success", {FALSE}),
               {[post |-> p, comments |-> cs] : p \in Posts \cup {Empty},
                                                cs \in SeqUpTo(Comments, 2)})
    \cup Merge(Opt("success", {FALSE}), {[user |-> u] : u \in Users})
    \cup Merge(Opt("success", {TRUE, FALSE}),
               Merge(Opt("message", {"Post created!"}),
                     {[post |-> p] : p \in {[id |-> "new123", url |-> "/post/new123"],
                                            [id |-> "new123", url |-> ""]}}))
    \cup Merge(Opt("success", {TRUE}),
               Merge(Opt("message", {"Comment added!"}),
                     {[comment |-> c] : c \in {[id |-> "comment123"], Empty}}))

StatusCodes == {200, 400, 401, 403, 404, 500}

\* what requests.request does: raise, or return a response whose body
\* decodes to a JSON object or does not decode
Outcomes ==
    {[kind |-> "ConnectionError"], [kind |-> "Timeout"]}
    \cup {[kind |-> "response", status_code |-> s, json_ok |-> FALSE] : s \in StatusCodes}
    \cup {[kind |-> "response", status_code |-> s, json_ok |-> TRUE, body |-> b] :
             s \in StatusCodes, b \in Bodies}

(***************************************************************************)
(* State.                                                                  *)
(***************************************************************************)
VARIABLES
    argv,          \* the invocation
    creds,         \* the .credentials file: <<>> when absent, else <<content>>
    now,           \* the clock
    pc,            \* "cli", "get_api_key", "request", "command", "exit"
    api_key,       \* api_request's local: <<>> before get_api_key, else <<key>>
    response,      \* what requests.request did: <<>> before, <<outcome>> after
    requests,      \* the calls of requests.request made so far
    data,          \* what api_request returned: <<>> before, <<body>> after
    stdout,        \* lines echoed to standard output
    stderr,        \* lines echoed with err=True
    exit_code      \* -1 while running, else the process's exit code

vars == <<argv, creds, now, pc, api_key, response, requests, data, stdout, stderr,
          exit_code>>

Init ==
    /\ argv \in Invocations
    /\ creds \in {<<>>, <<"test_api_key">>}
    /\ now \in NowValues
    /\ pc = "cli"
    /\ api_key = <<>>
    /\ response = <<>>
    /\ requests = <<>>
    /\ data = <<>>
    /\ stdout = <<>>
    /\ stderr = <<>>
    /\ exit_code = -1

\* sys.exit(code) after echoing lines to standard error
Exit(code, errlines) ==
    /\ pc' = "exit"
    /\ exit_code' = code
    /\ stderr' = stderr \o errlines

(***************************************************************************)
(* cli(): click parses the command line; a usage error exits with 2,       *)
(* otherwise the command function is entered, and its first statement is   *)
(* the call of api_request.                                                *)
(***************************************************************************)
cli ==
    /\ pc = "cli"
    /\ IF UsageError(argv) # <<>>
         THEN Exit(2, << <<"Usage: cli">>, <<"Error: ">> \o UsageError(argv) >>)
         ELSE pc' = "get_api_key" /\ UNCHANGED <<exit_code, stderr>>
    /\ UNCHANGED <<argv, creds, now, api_key, response, requests, data, stdout>>

(***************************************************************************)
(* The arguments each command passes to api_request.                       *)
(***************************************************************************)
\* feed: GET /posts with the sort and limit parameters
feed_request(a) ==
    [method |-> "GET", endpoint |-> <<"/posts">>, json_data |-> <<>>,
     params |-> << [sort  |-> get(a.opts, "sort", "hot"),
                    limit |-> get(a.opts, "limit", 20)] >>]

\* post: GET /posts/{post_id}
post_request(a) ==
    [method |-> "GET", endpoint |-> <<"/posts/", a.args[1]>>,
     json_data |-> <<>>, params |-> <<>>]

\* create: POST /posts with title, content and submolt
create_request(a) ==
    [method |-> "POST", endpoint |-> <<"/posts">>,
     json_data |-> << [title   |-> a.opts["title"],
                       content |-> a.opts["content"],
                       submolt |-> get(a.opts, "submolt", "general")] >>,
     params |-> <<>>]

\* delete: DELETE /posts/{post_id}
delete_request(a) ==
    [method |-> "DELETE", endpoint |-> <<"/posts/", a.args[1]>>,
     json_data |-> <<>>, params |-> <<>>]

\* Faulty variant of comment_request: parent_id is always sent, empty for a
\* top-level comment.
comment_request_always_parent(a) ==
    LET parent_id == get(a.opts, "reply-to", "")
        json_data == [content |-> a.opts["content"], parent_id |-> parent_id]
    IN  [method |-> "POST", endpoint |-> <<"/posts/", a.args[1], "/comments">>,
         json_data |-> <<json_data>>, params |-> <<>>]

\* comment: POST /posts/{post_id}/comments with content and, when given, parent_id
comment_request(a) ==
    LET parent_id == get(a.opts, "reply-to", "")
        json_data == [content |-> a.opts["content"]]
                     @@ (IF parent_id # "" THEN [parent_id |-> parent_id] ELSE Empty)
    IN  [method |-> "POST", endpoint |-> <<"/posts/", a.args[1], "/comments">>,
         json_data |-> <<json_data>>, params |-> <<>>]

\* user: GET /users/{username}
user_request(a) ==
    [method |-> "GET", endpoint |-> <<"/users/", a.args[1]>>,
     json_data |-> <<>>, params |-> <<>>]

\* the api_request call of the command function an accepted invocation runs
RequestOf(a) ==
    CASE a.cmd = "feed"    -> feed_request(a)
      [] a.cmd = "post"    -> post_request(a)
      [] a.cmd = "create"  -> create_request(a)
      [] a.cmd = "delete"  -> delete_request(a)
      [] a.cmd = "comment" -> comment_request(a)
      [] a.cmd = "user"    -> user_request(a)

\* Faulty variant of get_api_key: a missing file yields an empty key instead
\* of ending the run.
get_api_key_unchecked ==
    /\ pc = "get_api_key"
    /\ api_key' = IF creds = <<>> THEN <<"">> ELSE <<creds[1]>>
    /\ pc' = "request"
    /\ UNCHANGED <<argv, creds, now, response, requests, data, stdout, stderr, exit_code>>

(***************************************************************************)
(* get_api_key(): the first statement of api_request.  A missing           *)
(* .credentials file is fatal.                                             *)
(***************************************************************************)
get_api_key ==
    /\ pc = "get_api_key"
    /\ IF creds = <<>>
         THEN /\ Exit(1, << <<"Error: .credentials file not found">>,
                            <<"Create a .credentials file with your API key">> >>)
              /\ UNCHANGED api_key
         ELSE /\ api_key' = <<creds[1]>>
              /\ pc' = "request"
              /\ UNCHANGED <<exit_code, stderr>>
    /\ UNCHANGED <<argv, creds, now, response, requests, data, stdout>>

(***************************************************************************)
(* api_request(), after the key is loaded: builds the headers and the URL, *)
(* calls requests.request once and maps its outcome.                       *)
(***************************************************************************)
\* the keyword arguments of requests.request
HttpCall(r, key) ==
    [method  |-> r.method,
     url     |-> <<BASE_URL>> \o r.endpoint,
     headers |-> [Authorization |-> <<"Bearer ", key>>]
                 @@ (IF r.json_data # <<>> /\ r.json_data # <<Empty>>
                       THEN "Content-Type" :> <<"application/json">>
                       ELSE Empty),
     json    |-> r.json_data,
     params  |-> r.params,
     timeout |-> 30]

\* Faulty variant of FatalMessage: every error status is fatal.
FatalMessage_any_error_status(o) ==
    IF o.kind = "response" THEN
        IF o.status_code = 404 THEN <<"Error: Not found">>
        ELSE IF o.status_code = 401
            THEN <<"Error: Authentication failed - check your API key">>
        ELSE IF o.status_code >= 400 THEN <<"Error: Permission denied">>
        ELSE IF ~o.json_ok THEN <<"Error: Invalid response from server">>
        ELSE <<>>
    ELSE IF o.kind = "ConnectionError" THEN <<"Error: Could not connect to moltbook.com">>
    ELSE <<"Error: Request timed out">>

\* the message api_request prints before sys.exit(1), <<>> when it returns
FatalMessage(o) ==
    IF o.kind = "response" THEN
        IF o.status_code = 404 THEN <<"Error: Not found">>
        ELSE IF o.status_code = 401
            THEN <<"Error: Authentication failed - check your API key">>
        ELSE IF o.status_code = 403 THEN <<"Error: Permission denied">>
        ELSE IF ~o.json_ok THEN <<"Error: Invalid response from server">>
        ELSE <<>>
    ELSE IF o.kind = "ConnectionError" THEN <<"Error: Could not connect to moltbook.com">>
    ELSE <<"Error: Request timed out">>

\* Faulty variant of Sent: a timed-out call is made a second time.
Sent_retry(calls, call, o) ==
    IF o.kind = "Timeout" THEN Append(Append(calls, call), call) ELSE Append(calls, call)

\* the calls of requests.request made by the time api_request returns or
\* exits, when the call's outcome is o
Sent(calls, call, o) == Append(calls, call)

api_request ==
    /\ pc = "request"
    /\ \E o \in Outcomes :
         /\ requests' = Sent(requests, HttpCall(RequestOf(argv), api_key[1]), o)
         /\ response' = <<o>>
         /\ IF FatalMessage(o) # <<>>
              THEN Exit(1, <<FatalMessage(o)>>) /\ UNCHANGED data
              ELSE /\ data' = <<o.body>>
                   /\ pc' = "command"
                   /\ UNCHANGED <<exit_code, stderr>>
    /\ UNCHANGED <<argv, creds, now, api_key, stdout>>

(***************************************************************************)
(* format_time: ISO timestamp to relative time.                            *)
(***************************************************************************)
\* datetime.fromisoformat accepts the text
Parseable(text) == \E t \in Times : isoformat(t) = text

\* datetime.fromisoformat
fromisoformat(text) == CHOOSE t \in Times : isoformat(t) = text

\* Faulty variant of format_time: the minute bucket is tried before the hour
\* bucket.
format_time_minutes_first(iso_string, clock) ==
    IF iso_string = <<>> \/ iso_string[1] = "" THEN <<"unknown">>
    ELSE IF ~Parseable(iso_string[1]) THEN <<iso_string[1]>>
    ELSE LET diff    == clock - fromisoformat(iso_string[1])
             days    == diff \div 86400
             seconds == diff % 86400
             hours   == seconds \div 3600
             minutes == seconds \div 60
         IN  IF days > 0 THEN <<ToString(days), "d ago">>
             ELSE IF minutes > 0 THEN <<ToString(minutes), "m ago">>
             ELSE IF hours > 0 THEN <<ToString(hours), "h ago">>
             ELSE <<"just now">>

\* Faulty variant of format_time: the distance to the timestamp is taken
\* without its sign.
format_time_absolute(iso_string, clock) ==
    IF iso_string = <<>> \/ iso_string[1] = "" THEN <<"unknown">>
    ELSE IF ~Parseable(iso_string[1]) THEN <<iso_string[1]>>
    ELSE LET delta   == clock - fromisoformat(iso_string[1])
             diff    == IF delta < 0 THEN 0 - delta ELSE delta
             days    == diff \div 86400
             seconds == diff % 86400
             hours   == seconds \div 3600
             minutes == seconds \div 60
         IN  IF days > 0 THEN <<ToString(days), "d ago">>
             ELSE IF hours > 0 THEN <<ToString(hours), "h ago">>
             ELSE IF minutes > 0 THEN <<ToString(minutes), "m ago">>
             ELSE <<"just now">>

\* format_time(iso_string), read at clock reading clock; iso_string may be None.
\* diff.days and diff.seconds are the timedelta's normalised fields.
format_time(iso_string, clock) ==
    IF iso_string = <<>> \/ iso_string[1] = "" THEN <<"unknown">>
    ELSE IF ~Parseable(iso_string[1]) THEN <<iso_string[1]>>
    ELSE LET diff    == clock - fromisoformat(iso_string[1])
             days    == diff \div 86400
             seconds == diff % 86400
             hours   == seconds \div 3600
             minutes == seconds \div 60
         IN  IF days > 0 THEN <<ToString(days), "d ago">>
             ELSE IF hours > 0 THEN <<ToString(hours), "h ago">>
             ELSE IF minutes > 0 THEN <<ToString(minutes), "m ago">>
             ELSE <<"just now">>

\* the format specification :+d
Signed(n) == IF n >= 0 THEN <<"+", ToString(n)>> ELSE <<"-", ToString(0 - n)>>

\* Faulty variant of handle_error: any response without a true success
\* field is an error.
handle_error_falsy(d) ==
    IF getopt(d, "success") # <<TRUE>> THEN
        LET error == get(d, "error", "Unknown error")
            hint  == get(d, "hint", "")
            retry == getopt(d, "retry_after_minutes")
        IN  << <<"Error: ", error>> >>
            \o (IF hint # "" THEN << <<"Hint: ", hint>> >> ELSE <<>>)
            \o (IF retry # <<>> /\ retry[1] # 0
                  THEN << <<"Retry in: ", ToString(retry[1]), " minutes">> >>
                  ELSE <<>>)
    ELSE <<>>

(***************************************************************************)
(* handle_error: the lines printed to standard error before sys.exit(1),   *)
(* <<>> when handle_error returns.                                         *)
(***************************************************************************)
handle_error(d) ==
    IF getopt(d, "success") = <<FALSE>> THEN
        LET error == get(d, "error", "Unknown error")
            hint  == get(d, "hint", "")
            retry == getopt(d, "retry_after_minutes")
        IN  << <<"Error: ", error>> >>
            \o (IF hint # "" THEN << <<"Hint: ", hint>> >> ELSE <<>>)
            \o (IF retry # <<>> /\ retry[1] # 0
                  THEN << <<"Retry in: ", ToString(retry[1]), " minutes">> >>
                  ELSE <<>>)
    ELSE <<>>

(***************************************************************************)
(* json.dumps(data, indent=2): the text, token by token, of a decoded      *)
(* response.  The type of a value is given by its key.                     *)
(***************************************************************************)
BoolKeys == {"success"}
IntKeys  == {"retry_after_minutes", "upvotes", "downvotes", "comment_count",
             "karma", "follower_count", "following_count"}
ObjKeys  == {"post", "user", "comment", "author", "submolt"}
ListKeys == {"posts", "comments", "replies"}

\* the order in which the keys of an object are written
KeyOrder == <<"success", "error", "hint", "retry_after_minutes", "message",
              "posts", "post", "comments", "user", "comment",
              "id", "title", "content", "url", "upvotes", "downvotes",
              "comment_count", "created_at", "author", "submolt",
              "username", "name", "bio", "karma", "follower_count",
              "following_count", "replies">>

RECURSIVE Join(_, _)
\* the non-empty pieces of ss, separated by sep
Join(ss, sep) ==
    IF ss = <<>> THEN <<>>
    ELSE IF Head(ss) = <<>> THEN Join(Tail(ss), sep)
    ELSE LET rest == Join(Tail(ss), sep)
         IN  IF rest = <<>> THEN Head(ss) ELSE Head(ss) \o sep \o rest

RECURSIVE dumps(_)
dumps(d) ==
    LET value(k) ==
            IF k \in BoolKeys THEN <<IF d[k] THEN "true" ELSE "false">>
            ELSE IF k \in IntKeys THEN <<ToString(d[k])>>
            ELSE IF k \in ObjKeys THEN dumps(d[k])
            ELSE IF k \in ListKeys
                THEN <<"[">> \o Join([i \in DOMAIN d[k] |-> dumps(d[k][i])], <<", ">>)
                     \o <<"]">>
            ELSE <<"\"", d[k], "\"">>
        item(k) == IF k \in DOMAIN d THEN <<"\"", k, "\": ">> \o value(k) ELSE <<>>
    IN  <<"{">> \o Join([i \in 1..Len(KeyOrder) |-> item(KeyOrder[i])], <<", ">>)
        \o <<"}">>

\* the text json.dumps writes for each modelled response
Dumped == [d \in Bodies |-> dumps(d)]

\* json.loads on a text that json.dumps wrote
loads(text) == CHOOSE d \in Bodies : Dumped[d] = text

(***************************************************************************)
(* The command functions, from the return of api_request on.               *)
(***************************************************************************)
\* the command function returns: click exits with 0
Return(outlines) ==
    /\ stdout' = stdout \o outlines
    /\ pc' = "exit"
    /\ exit_code' = 0
    /\ UNCHANGED <<argv, creds, now, api_key, response, requests, data, stderr>>

\* Faulty variant of Abort: the command has already echoed its message
\* when handle_error ends the run.
Abort_after_output(errlines) ==
    /\ Exit(1, errlines)
    /\ stdout' = stdout \o << <<get(data[1], "message", "")>> >>
    /\ UNCHANGED <<argv, creds, now, api_key, response, requests, data>>

\* handle_error printed and called sys.exit(1)
Abort(errlines) ==
    /\ Exit(1, errlines)
    /\ UNCHANGED <<argv, creds, now, api_key, response, requests, data, stdout>>

\* the four lines feed prints for one post
feed_post(post, clock) ==
    LET author       == get(post, "author", Empty)
        author_name  == get(author, "username", "anonymous")
        submolt      == get(post, "submolt", Empty)
        submolt_name == get(submolt, "name", "general")
        votes        == get(post, "upvotes", 0) - get(post, "downvotes", 0)
        comments     == get(post, "comment_count", 0)
        time_ago     == format_time(getopt(post, "created_at"), clock)
    IN  << <<"\n", get(post, "title", "Untitled")>>,
           <<"  ">> \o Signed(votes) \o <<" points | ", ToString(comments), " comments | ">>
                \o time_ago,
           <<"  by ", author_name, " in ", submolt_name>>,
           <<"  id: ", get(post, "id", "None")>> >>

\* Faulty variant of feed_output: the --json flag is ignored.
feed_output_formatted(d, output_json, clock) ==
    LET posts == get(d, "posts", <<>>)
    IN  IF posts = <<>> THEN << <<"No posts found">> >>
        ELSE Concat([i \in DOMAIN posts |-> feed_post(posts[i], clock)])

\* what feed writes to standard output for a decoded response
feed_output(d, output_json, clock) ==
    IF output_json THEN <<dumps(d)>>
    ELSE LET posts == get(d, "posts", <<>>)
         IN  IF posts = <<>> THEN << <<"No posts found">> >>
             ELSE Concat([i \in DOMAIN posts |-> feed_post(posts[i], clock)])

feed ==
    /\ pc = "command" /\ argv.cmd = "feed"
    /\ Return(feed_output(data[1], get(argv.opts, "json", FALSE), now))

RECURSIVE print_comments_siblings_first(_, _, _)
\* Faulty variant of print_comments: the replies of a comment are printed
\* after the comment's later siblings.
print_comments_siblings_first(comments, indent, clock) ==
    IF comments = <<>> THEN <<>>
    ELSE LET c           == Head(comments)
             prefix      == [i \in 1..indent |-> "  "]
             author      == get(c, "author", Empty)
             author_name == get(author, "name", "anonymous")
             votes       == get(c, "upvotes", 0) - get(c, "downvotes", 0)
             time_ago    == format_time(getopt(c, "created_at"), clock)
             replies     == get(c, "replies", <<>>)
         IN  << prefix \o <<author_name, " (">> \o Signed(votes) \o <<") ">> \o time_ago,
                prefix \o <<"  ", get(c, "content", "")>> >>
             \o print_comments_siblings_first(Tail(comments), indent, clock)
             \o (IF replies # <<>>
                   THEN print_comments_siblings_first(replies, indent + 1, clock)
                   ELSE <<>>)

RECURSIVE print_comments(_, _, _)
\* print_comments(comments, indent): the lines echoed, in order
print_comments(comments, indent, clock) ==
    IF comments = <<>> THEN <<>>
    ELSE LET c           == Head(comments)
             prefix      == [i \in 1..indent |-> "  "]
             author      == get(c, "author", Empty)
             author_name == get(author, "name", "anonymous")
             votes       == get(c, "upvotes", 0) - get(c, "downvotes", 0)
             time_ago    == format_time(getopt(c, "created_at"), clock)
             replies     == get(c, "replies", <<>>)
         IN  << prefix \o <<author_name, " (">> \o Signed(votes) \o <<") ">> \o time_ago,
                prefix \o <<"  ", get(c, "content", "")>> >>
             \o (IF replies # <<>> THEN print_comments(replies, indent + 1, clock)
                                   ELSE <<>>)
             \o print_comments(Tail(comments), indent, clock)

\* what post writes to standard output for a decoded response
post_output(d, output_json, clock) ==
    IF output_json THEN <<dumps(d)>>
    ELSE LET p == get(d, "post", Empty)
         IN  IF p = Empty THEN << <<"Post not found">> >>
             ELSE LET author      == get(p, "author", Empty)
                      author_name == get(author, "username", "anonymous")
                      votes       == get(p, "upvotes", 0) - get(p, "downvotes", 0)
                      time_ago    == format_time(getopt(p, "created_at"), clock)
                      comments    == get(d, "comments", <<>>)
                      rule        == <<"----------------------------------------">>
                  IN  << <<"\n", get(p, "title", "Untitled")>>,
                         <<"by ", author_name, " | ">> \o Signed(votes)
                              \o <<" points | ">> \o time_ago,
                         rule,
                         <<get(p, "content", "")>>,
                         rule >>
                      \o (IF comments # <<>>
                            THEN << <<"\nComments (", ToString(Len(comments)), "):">> >>
                                 \o print_comments(comments, 0, clock)
                            ELSE << <<"\nNo comments yet">> >>)

post ==
    /\ pc = "command" /\ argv.cmd = "post"
    /\ Return(post_output(data[1], get(argv.opts, "json", FALSE), now))

\* what create writes to standard output once handle_error has returned
create_output(d) ==
    LET p        == get(d, "post", Empty)
        url      == get(p, "url", "")
        full_url == IF url # "" THEN <<"https://moltbook.com", url>> ELSE <<>>
    IN  << <<get(d, "message", "Post created!")>> >>
        \o (IF full_url # <<>> THEN << <<"URL: ">> \o full_url >> ELSE <<>>)
        \o << <<"ID: ", get(p, "id", "None")>> >>

create ==
    /\ pc = "command" /\ argv.cmd = "create"
    /\ IF handle_error(data[1]) # <<>>
         THEN Abort(handle_error(data[1]))
         ELSE Return(create_output(data[1]))

delete ==
    /\ pc = "command" /\ argv.cmd = "delete"
    /\ IF handle_error(data[1]) # <<>>
         THEN Abort(handle_error(data[1]))
         ELSE Return(<< <<get(data[1], "message", "Post deleted")>> >>)

\* what comment writes to standard output once handle_error has returned
comment_output(d) ==
    LET c == get(d, "comment", Empty)
    IN  << <<get(d, "message", "Comment added!")>>,
           <<"Comment ID: ", get(c, "id", "None")>> >>

comment ==
    /\ pc = "command" /\ argv.cmd = "comment"
    /\ IF handle_error(data[1]) # <<>>
         THEN Abort(handle_error(data[1]))
         ELSE Return(comment_output(data[1]))

\* what user writes to standard output for a decoded response
user_output(d, output_json, clock) ==
    IF output_json THEN <<dumps(d)>>
    ELSE LET u == get(d, "user", Empty)
         IN  IF u = Empty THEN << <<"User not found">> >>
             ELSE << <<"\n", get(u, "name", get(u, "username", "Unknown"))>>,
                     <<"@", get(u, "username", "")>> >>
                  \o (IF get(u, "bio", "") # "" THEN << <<"\n", u["bio"]>> >> ELSE <<>>)
                  \o << <<"\nKarma: ", ToString(get(u, "karma", 0))>>,
                        <<"Followers: ", ToString(get(u, "follower_count", 0))>>,
                        <<"Following: ", ToString(get(u, "following_count", 0))>>,
                        <<"Joined: ">> \o format_time(getopt(u, "created_at"), clock) >>

user ==
    /\ pc = "command" /\ argv.cmd = "user"
    /\ Return(user_output(data[1], get(argv.opts, "json", FALSE), now))

Next ==
    \/ cli
    \/ get_api_key
    \/ api_request
    \/ feed
    \/ post
    \/ create
    \/ delete
    \/ comment
    \/ user

Spec == Init /\ [][Next]_vars

(***************************************************************************)
(* Rendering of comment trees: the runs of post in which api_request has   *)
(* just returned a post with a tree of at most MaxComments comments.       *)
(***************************************************************************)
\* the fields of a comment other than its replies
CommentFields ==
    { [content |-> "a", upvotes |-> 3, created_at |-> isoformat(172755),
       author |-> [name |-> "Commenter"]],
      [content |-> "b", downvotes |-> 1] }

RECURSIVE Threads(_), Thread(_)
\* the comment lists that hold n comments in all, replies included
Threads(n) ==
    IF n = 0 THEN {<<>>}
    ELSE UNION {{<<c>> \o rest : c \in Thread(k), rest \in Threads(n - k)} : k \in 1..n}

\* the comments that hold n comments in all, themselves included
Thread(n) == {f @@ [replies |-> r] : f \in CommentFields, r \in Threads(n - 1)}

\* The state in which api_request has returned body to the command of
\* invocation a.
Returned(a, body) ==
    /\ argv = a
    /\ creds = <<"test_api_key">>
    /\ api_key = <<"test_api_key">>
    /\ pc = "command"
    /\ response = <<[kind |-> "response", status_code |-> 200, json_ok |-> TRUE,
                     body |-> body]>>
    /\ requests = <<HttpCall(RequestOf(a), "test_api_key")>>
    /\ data = <<body>>
    /\ stdout = <<>>
    /\ stderr = <<>>
    /\ exit_code = -1

InitRender ==
    /\ now \in NowValues
    /\ \E n \in 0..MaxComments : \E cs \in Threads(n) :
          Returned([cmd |-> "post", args |-> <<"abc123">>, opts |-> Empty],
                   [post |-> [id |-> "abc123", title |-> "Test Post"], comments |-> cs])

SpecRender == InitRender /\ [][post]_vars

(***************************************************************************)
(* Relative times: the runs of user in which api_request has just returned *)
(* a profile whose created_at is absent, empty, unparseable or any of the  *)
(* modelled timestamps, past or future.                                    *)
(***************************************************************************)
InitTime ==
    /\ now \in NowValues
    /\ \E c \in Opt("created_at", {"", "not-a-date"} \cup {isoformat(t) : t \in Times}) :
          Returned([cmd |-> "user", args |-> <<"testuser">>, opts |-> Empty],
                   [user |-> [username |-> "testuser"] @@ c])

SpecTime == InitTime /\ [][user]_vars

TypeOK ==
    /\ argv \in Invocations
    /\ pc \in {"cli", "get_api_key", "request", "command", "exit"}
    /\ exit_code \in {-1, 0, 1, 2}
    /\ (pc = "exit") = (exit_code # -1)
    /\ Len(api_key) \in 0..1 /\ Len(response) \in 0..1 /\ Len(data) \in 0..1

(***************************************************************************)
(* Properties.                                                             *)
(***************************************************************************)
\* the response handed to the command is a failure envelope
Failure(d) == "success" \in DOMAIN d /\ d["success"] = FALSE

\* the invocation without its --json flag
WithoutJson(a) ==
    [a EXCEPT !.opts = [k \in DOMAIN a.opts \ {"json"} |-> a.opts[k]]]

\* C1: in every run of every command, whatever the server answers, at most
\* one network request is issued; no failure outcome (status error,
\* connection failure, timeout, malformed body, success=false envelope)
\* triggers a second request.
C1_AtMostOneRequest ==
    /\ Len(requests) <= 1
    /\ (pc = "exit" /\ response # <<>>) => Len(requests) = 1

\* a run that failed after its request and ended
C1_Witness ==
    /\ pc = "exit" /\ exit_code = 1
    /\ response # <<>> /\ response[1].kind = "Timeout"
    /\ Len(requests) = 1

\* C2: no command produces partial output before aborting: a run that ends
\* with exit code 1 has written nothing to standard output and its error,
\* hint and retry lines are on standard error; standard output is written
\* only by a run that passed every fatal check and ends with exit code 0.
C2_NoPartialOutput ==
    /\ exit_code = 1 => (stdout = <<>> /\ stderr # <<>>)
    /\ stdout # <<>> => (pc = "exit" /\ exit_code = 0 /\ stderr = <<>>)

\* create aborted by handle_error on a failure envelope that also carries a
\* message and a hint
C2_Witness ==
    /\ pc = "exit" /\ exit_code = 1 /\ argv.cmd = "create"
    /\ data # <<>> /\ Failure(data[1]) /\ "message" \in DOMAIN data[1]
    /\ Len(stderr) = 2

\* C3: an application error is terminal for every command: whenever the
\* decoded response is a failure envelope, the command (write or read)
\* prints the server's error to standard error and exits with code 1; exit
\* code 0 is reached only when the response is not a failure envelope.
C3_ApplicationErrorTerminal ==
    (pc = "exit" /\ data # <<>>) =>
        /\ Failure(data[1]) =>
              /\ exit_code = 1
              /\ stdout = <<>>
              /\ stderr # <<>>
              /\ stderr[1] = <<"Error: ", get(data[1], "error", "Unknown error")>>
        /\ exit_code = 0 => ~Failure(data[1])

\* C4: api_request ends the run with exit code 1 and exactly one fixed
\* message line if and only if the status is 404, 401 or 403, or the call
\* fails with a connection error, a timeout or an undecodable body; for
\* these statuses the body is never returned.  For every other status it
\* returns the decoded body unchanged.
C4_Transport ==
    response # <<>> =>
        LET o         == response[1]
            status(c) == o.kind = "response" /\ o.status_code = c
            fatal     == \/ o.kind \in {"ConnectionError", "Timeout"}
                         \/ status(404) \/ status(401) \/ status(403)
                         \/ (o.kind = "response" /\ ~o.json_ok)
            exited    == pc = "exit" /\ data = <<>>
        IN  /\ exited <=> fatal
            /\ exited => (exit_code = 1 /\ Len(stderr) = 1 /\ stdout = <<>>)
            /\ status(404) => stderr = << <<"Error: Not found">> >>
            /\ status(401) =>
                  stderr = << <<"Error: Authentication failed - check your API key">> >>
            /\ status(403) => stderr = << <<"Error: Permission denied">> >>
            /\ (o.kind = "ConnectionError") =>
                  stderr = << <<"Error: Could not connect to moltbook.com">> >>
            /\ (o.kind = "Timeout") => stderr = << <<"Error: Request timed out">> >>
            /\ ~fatal => data = <<o.body>>

\* a status 500 response whose failure envelope reached the command
C4_Witness ==
    /\ response # <<>> /\ response[1].kind = "response"
    /\ response[1].status_code = 500 /\ response[1].json_ok
    /\ data = <<response[1].body>> /\ Failure(data[1])

\* the state after handle_error ran in a command that calls it
AfterHandleError ==
    pc = "exit" /\ data # <<>> /\ argv.cmd \in {"create", "delete", "comment"}

\* the lines of a failure envelope, with the hint and retry lines as told
ErrorLines(d, hint_line, retry_line) ==
    << <<"Error: ", IF "error" \in DOMAIN d THEN d["error"] ELSE "Unknown error">> >>
    \o (IF hint_line THEN << <<"Hint: ", d["hint"]>> >> ELSE <<>>)
    \o (IF retry_line
          THEN << <<"Retry in: ", ToString(d["retry_after_minutes"]), " minutes">> >>
          ELSE <<>>)

\* C5 as stated: handle_error ends the run with exit code 1 exactly when
\* success is explicitly false, and then writes the error line, a hint line
\* when the response carries a hint, and a retry line when the response
\* carries retry_after_minutes; otherwise it writes nothing and the command
\* goes on to its output.
C5_AsStated ==
    AfterHandleError =>
        LET d == data[1]
        IN  IF Failure(d)
              THEN /\ exit_code = 1 /\ stdout = <<>>
                   /\ stderr = ErrorLines(d, "hint" \in DOMAIN d,
                                          "retry_after_minutes" \in DOMAIN d)
              ELSE exit_code = 0 /\ stderr = <<>> /\ stdout # <<>>

\* C5, amended: handle_error ends the run with exit code 1 exactly when
\* success is explicitly false, and then writes, in this order, the error
\* line, a hint line when the response carries a non-empty hint, and a retry
\* line when the response carries a non-zero retry_after_minutes; when
\* success is absent or true it writes nothing and the command goes on to
\* its output.
C5_HandleError ==
    AfterHandleError =>
        LET d == data[1]
        IN  IF Failure(d)
              THEN /\ exit_code = 1 /\ stdout = <<>>
                   /\ stderr = ErrorLines(d,
                         "hint" \in DOMAIN d /\ d["hint"] # "",
                         "retry_after_minutes" \in DOMAIN d
                             /\ d["retry_after_minutes"] # 0)
              ELSE exit_code = 0 /\ stderr = <<>> /\ stdout # <<>>

\* error E, hint H and retry_after_minutes 5 yield all three lines
C5_Witness ==
    /\ AfterHandleError /\ exit_code = 1
    /\ stderr = << <<"Error: ", "E">>, <<"Hint: ", "H">>,
                   <<"Retry in: ", "5", " minutes">> >>

\* C6: a request is issued only after invocation validation and credential
\* loading have both succeeded: with a required option missing the run
\* exits with code 2 and a missing-option message and no request is sent;
\* with the credential file absent the run exits with code 1 and no request
\* is sent.
C6_RequestAfterValidation ==
    LET given   == DOMAIN argv.opts
        missing == \/ argv.cmd = "create" /\ ~({"title", "content"} \subseteq given)
                   \/ argv.cmd = "comment" /\ "content" \notin given
        only_missing == /\ missing
                        /\ given \subseteq {"title", "content", "submolt", "reply-to"}
                        /\ argv.cmd = "comment" => Len(argv.args) = 1
    IN  /\ requests # <<>> => (~missing /\ creds # <<>>)
        /\ (pc = "exit" /\ missing) => (exit_code = 2 /\ requests = <<>>)
        /\ (pc = "exit" /\ only_missing) =>
              stderr[Len(stderr)] = <<"Error: ", "Missing option">>
        /\ (pc = "exit" /\ creds = <<>>) =>
              /\ requests = <<>>
              /\ exit_code \in {1, 2}
              /\ exit_code = 1 =>
                    stderr = << <<"Error: .credentials file not found">>,
                                <<"Create a .credentials file with your API key">> >>

\* a well-formed invocation that ended for want of the credential file
C6_Witness ==
    /\ pc = "exit" /\ exit_code = 1 /\ creds = <<>>
    /\ argv.cmd = "create" /\ {"title", "content"} \subseteq DOMAIN argv.opts

C8_VoteCommands ==
    LET path == CASE argv.cmd = "upvote"           -> <<"/posts/", argv.args[1], "/upvote">>
                  [] argv.cmd = "downvote"         -> <<"/posts/", argv.args[1], "/downvote">>
                  [] argv.cmd = "upvote-comment"   -> <<"/comments/", argv.args[1], "/upvote">>
                  [] argv.cmd = "downvote-comment" -> <<"/comments/", argv.args[1], "/downvote">>
    IN  (/\ pc = "exit" /\ creds # <<>>
         /\ argv.cmd \in {"upvote", "downvote", "upvote-comment", "downvote-comment"}) =>
            /\ Len(requests) = 1
            /\ requests[1].method = "POST"
            /\ requests[1].url = <<BASE_URL>> \o path
            /\ exit_code \in {0, 1}
            /\ data # <<>> => (exit_code = 1 <=> Failure(data[1]))

\* C9: feed issues one GET to /posts whose parameters always contain sort
\* (hot when not given) and limit (20 when not given), and contain submolt
\* if and only if a submolt filter was given, with the given value.
C9_FeedParams ==
    (/\ pc = "exit" /\ creds # <<>> /\ argv.cmd = "feed"
     /\ "sort" \in DOMAIN argv.opts => argv.opts["sort"] \in {"hot", "new", "top"}) =>
        /\ Len(requests) = 1
        /\ requests[1].method = "GET"
        /\ requests[1].url = <<BASE_URL, "/posts">>
        /\ requests[1].params =
              << [sort  |-> IF "sort" \in DOMAIN argv.opts THEN argv.opts["sort"] ELSE "hot",
                  limit |-> IF "limit" \in DOMAIN argv.opts THEN argv.opts["limit"] ELSE 20]
                 @@ (IF "submolt" \in DOMAIN argv.opts
                       THEN [submolt |-> argv.opts["submolt"]] ELSE Empty) >>

\* C10: the submolts command exists and issues one GET to /submolts, and
\* exits 0 after printing the list or 'No submolts found'.
C10_Submolts ==
    (/\ pc = "exit" /\ creds # <<>> /\ argv.cmd = "submolts"
     /\ "json" \notin DOMAIN argv.opts) =>
        /\ Len(requests) = 1
        /\ requests[1].method = "GET"
        /\ requests[1].url = <<BASE_URL, "/submolts">>
        /\ data # <<>> => (exit_code = 0 /\ stdout # <<>>)

\* C11: comment <post_id> issues one POST to /posts/<post_id>/comments whose
\* body always contains content and contains parent_id if and only if a
\* reply-to comment id (a non-empty one) was given, then with that id; a
\* top-level comment's body has no parent_id key.  After a non-failure
\* response the command prints the message and the new comment id and
\* exits 0.
C11_CommentBody ==
    LET reply == "reply-to" \in DOMAIN argv.opts /\ argv.opts["reply-to"] # ""
    IN  /\ (argv.cmd = "comment" /\ response # <<>>) =>
              /\ Len(requests) = 1
              /\ requests[1].method = "POST"
              /\ requests[1].url = <<BASE_URL, "/posts/", argv.args[1], "/comments">>
              /\ Len(requests[1].json) = 1
              /\ LET body == requests[1].json[1]
                 IN  /\ "content" \in DOMAIN body
                     /\ body["content"] = argv.opts["content"]
                     /\ DOMAIN body \subseteq {"content", "parent_id"}
                     /\ "parent_id" \in DOMAIN body <=> reply
                     /\ reply => body["parent_id"] = argv.opts["reply-to"]
        /\ (/\ argv.cmd = "comment" /\ pc = "exit"
            /\ data # <<>> /\ ~Failure(data[1])) =>
              /\ exit_code = 0
              /\ stdout =
                    << <<IF "message" \in DOMAIN data[1] THEN data[1]["message"]
                                                         ELSE "Comment added!">>,
                       <<"Comment ID: ",
                         IF "comment" \in DOMAIN data[1] /\ "id" \in DOMAIN data[1]["comment"]
                           THEN data[1]["comment"]["id"] ELSE "None">> >>

\* a top-level comment was accepted and its id printed
C11_Witness ==
    /\ argv.cmd = "comment" /\ pc = "exit" /\ exit_code = 0
    /\ "reply-to" \notin DOMAIN argv.opts
    /\ Len(requests) = 1 /\ DOMAIN requests[1].json[1] = {"content"}
    /\ stdout = << <<"Comment added!">>, <<"Comment ID: ", "comment123">> >>

RECURSIVE Paths(_)
\* the positions of the comments of a tree: a position is the sequence of
\* indexes that leads from the top-level list to the comment
Paths(cs) ==
    UNION {{<<i>>} \cup {<<i>> \o q : q \in Paths(cs[i]["replies"])} : i \in DOMAIN cs}

RECURSIVE At(_, _)
\* the comment at position p
At(cs, p) == IF Len(p) = 1 THEN cs[p[1]] ELSE At(cs[p[1]]["replies"], Tail(p))

\* position p comes before position q in pre-order: p is an ancestor of q,
\* or at the first index where they differ p takes the earlier sibling
Before(p, q) ==
    \/ Len(p) < Len(q) /\ SubSeq(q, 1, Len(p)) = p
    \/ \E i \in 1..Len(p) :
          /\ i <= Len(q)
          /\ SubSeq(p, 1, i - 1) = SubSeq(q, 1, i - 1)
          /\ p[i] < q[i]

\* C12: rendering a finite comment tree emits the comments in pre-order,
\* siblings in server order: each comment produces exactly two lines, the
\* header '<author> (<signed score>) <relative time>' and the content, both
\* indented by the comment's depth (top level 0); the lines of a comment's
\* reply subtree come after its two lines and before those of its next
\* sibling; the number of lines is twice the number of comments.
C12_PreOrder ==
    (pc = "exit" /\ argv.cmd = "post" /\ data # <<>> /\ data[1]["comments"] # <<>>) =>
        LET cs    == data[1]["comments"]
            lines == SubSeq(stdout, 7, Len(stdout))
            rank(p) == Cardinality({q \in Paths(cs) : Before(q, p)}) + 1
            indent(p) == [i \in 1..(Len(p) - 1) |-> "  "]
            name(c) == IF "author" \in DOMAIN c /\ "name" \in DOMAIN c["author"]
                         THEN c["author"]["name"] ELSE "anonymous"
            score(c) == (IF "upvotes" \in DOMAIN c THEN c["upvotes"] ELSE 0)
                        - (IF "downvotes" \in DOMAIN c THEN c["downvotes"] ELSE 0)
        IN  /\ Len(stdout) = 6 + 2 * Cardinality(Paths(cs))
            /\ \A p \in Paths(cs) :
                  /\ lines[2 * rank(p) - 1] =
                        indent(p) \o <<name(At(cs, p)), " (">> \o Signed(score(At(cs, p)))
                        \o <<") ">> \o format_time(getopt(At(cs, p), "created_at"), now)
                  /\ lines[2 * rank(p)] = indent(p) \o <<"  ", At(cs, p)["content"]>>

\* a comment with a reply to a reply, followed by a sibling: eight lines
C12_Witness ==
    /\ pc = "exit" /\ argv.cmd = "post" /\ data # <<>>
    /\ Len(data[1]["comments"]) = 2
    /\ <<1, 1, 1>> \in Paths(data[1]["comments"])
    /\ Len(stdout) = 14

\* user has printed the profile of data: its last line is 'Joined: ' and
\* what format_time returned for the profile's created_at
Joined ==
    /\ pc = "exit" /\ exit_code = 0 /\ argv.cmd = "user"
    /\ "json" \notin DOMAIN argv.opts
    /\ data # <<>> /\ "user" \in DOMAIN data[1] /\ data[1]["user"] # Empty

\* C13: format_time returns 'unknown' for a null or empty input and the
\* input verbatim for an unparseable string; for a parseable timestamp d
\* whole days and s further seconds (0 <= s < 86400) in the past it returns
\* exactly one bucket: '<d>d ago' when d >= 1; else '<s div 3600>h ago' when
\* s >= 3600; else '<s div 60>m ago' when s >= 60; else 'just now'.
C13_Buckets ==
    Joined =>
        LET u      == data[1]["user"]
            result == Tail(stdout[Len(stdout)])
        IN  IF "created_at" \notin DOMAIN u \/ u["created_at"] = ""
              THEN result = <<"unknown">>
            ELSE IF \A t \in Times : isoformat(t) # u["created_at"]
              THEN result = <<u["created_at"]>>
            ELSE \A t \in Times : isoformat(t) = u["created_at"] =>
                    \A d \in 0..(MaxDays + 2) :
                        LET s == (now - t) - d * 86400
                        IN  (0 <= s /\ s < 86400) =>
                               result =
                                  IF d >= 1 THEN <<ToString(d), "d ago">>
                                  ELSE IF s >= 3600 THEN <<ToString(s \div 3600), "h ago">>
                                  ELSE IF s >= 60 THEN <<ToString(s \div 60), "m ago">>
                                  ELSE <<"just now">>

\* ninety minutes ago reads '1h ago'
C13_Witness ==
    /\ Joined
    /\ "created_at" \in DOMAIN data[1]["user"]
    /\ data[1]["user"]["created_at"] = isoformat(now - 5400)
    /\ stdout[Len(stdout)] = <<"Joined: ", "1", "h ago">>

\* C14: format_time never prints a non-positive count: for every parseable
\* timestamp, past or future, it returns '<N>d ago', '<N>h ago' or
\* '<N>m ago' with N >= 1, or 'just now'; for a future timestamp the day
\* bucket is never chosen and the result is that of the difference reduced
\* modulo one day (one hour ahead reads '23h ago').
C14_FutureTimestamps ==
    Joined =>
        LET u      == data[1]["user"]
            result == Tail(stdout[Len(stdout)])
        IN  \A t \in Times :
                ("created_at" \in DOMAIN u /\ isoformat(t) = u["created_at"]) =>
                    /\ \/ result = <<"just now">>
                       \/ /\ Len(result) = 2
                          /\ result[2] \in {"d ago", "h ago", "m ago"}
                          /\ \E N \in 1..(MaxDays + 59) : result[1] = ToString(N)
                    /\ t > now =>
                          LET r == (now - t) % 86400
                          IN  /\ result[Len(result)] # "d ago"
                              /\ result =
                                    IF r >= 3600 THEN <<ToString(r \div 3600), "h ago">>
                                    ELSE IF r >= 60 THEN <<ToString(r \div 60), "m ago">>
                                    ELSE <<"just now">>

\* one hour ahead reads '23h ago'
C14_Witness ==
    /\ Joined
    /\ "created_at" \in DOMAIN data[1]["user"]
    /\ data[1]["user"]["created_at"] = isoformat(now + 3600)
    /\ stdout[Len(stdout)] = <<"Joined: ", "23", "h ago">>

====
